---- MODULE Spec2Model ----
(***************************************************************************)
(* A model of pyfile-tracker: the archive-based tracker of src/main.py     *)
(* (tracking loop, retention pruning, recovery-point resolution, restore)  *)
(* and the recovery-point parser of src/src/pyfile_tracker/cli.py.         *)
(*                                                                         *)
(* Strings are tuples of one-character strings.  Wall-clock time is an     *)
(* integer number of seconds that never decreases within one run.          *)
(***************************************************************************)
EXTENDS Integers, Sequences, FiniteSets, TLC

\* ------------------------------------------------------------------ bounds

\* A file holds one of the contents 1..MaxContent.
MaxContent == 2
\* The clock stops advancing at MaxTime.
MaxTime == 6
\* The notification source delivers at most MaxEvents events in one run.
MaxEvents == 2
\* A stored collection drawn as an input holds at most MaxSnaps snapshots,
\* with ids in 1..MaxSnaps+1 and timestamps in 0..MaxStamp.
MaxSnaps == 3
MaxStamp == 2

\* A store is opened by at most MaxRuns invocations.
MaxRuns == 3

\* --------------------------------------------------------------- constants

\* main.py:21, cli.py:21
DEBOUNCE_SECONDS == 2

\* ----------------------------------------------------------------- strings

Digits == {"0", "1", "2", "3", "4", "5", "6", "7", "8", "9"}

DigitVal(c) ==
    CASE c = "0" -> 0 [] c = "1" -> 1 [] c = "2" -> 2 [] c = "3" -> 3
      [] c = "4" -> 4 [] c = "5" -> 5 [] c = "6" -> 6 [] c = "7" -> 7
      [] c = "8" -> 8 [] c = "9" -> 9

Front(s) == SubSeq(s, 1, Len(s) - 1)

Last(s) == s[Len(s)]

RECURSIVE LStrip(_)
LStrip(s) == IF s # <<>> /\ Head(s) = " " THEN LStrip(Tail(s)) ELSE s

RECURSIVE RStrip(_)
RStrip(s) == IF s # <<>> /\ Last(s) = " " THEN RStrip(Front(s)) ELSE s

\* str.strip(): leading and trailing whitespace removed.
strip(s) == RStrip(LStrip(s))

RECURSIVE DigitsVal(_)
DigitsVal(ds) == IF ds = <<>> THEN 0 ELSE 10 * DigitsVal(Front(ds)) + DigitVal(Last(ds))

AllDigits(s) == s # <<>> /\ \A i \in 1..Len(s) : s[i] \in Digits

\* The digit part of an int() literal: digits, single underscores between them.
IntDigits(s) ==
    /\ s # <<>>
    /\ s[1] \in Digits /\ Last(s) \in Digits
    /\ \A i \in 1..Len(s) : s[i] \in Digits \cup {"_"}
    /\ \A i \in 1..(Len(s) - 1) : ~(s[i] = "_" /\ s[i + 1] = "_")

Unsigned(s) == IF s # <<>> /\ Head(s) \in {"+", "-"} THEN Tail(s) ELSE s

\* int(s) does not raise ValueError.
IsInt(s) == IntDigits(Unsigned(strip(s)))

\* The value of int(s), for IsInt(s).
IntVal(s) ==
    LET t == strip(s)
        v == DigitsVal(SelectSeq(Unsigned(t), LAMBDA c : c \in Digits))
    IN IF Head(t) = "-" THEN -v ELSE v

lower(c) ==
    CASE c = "S" -> "s" [] c = "M" -> "m" [] c = "H" -> "h" [] c = "D" -> "d"
      [] OTHER -> c

\* re.fullmatch(r"(\d+)\s*([smhd])", s, re.IGNORECASE) is not None.
TimeframeMatch(s) ==
    /\ Len(s) >= 2
    /\ lower(Last(s)) \in {"s", "m", "h", "d"}
    /\ AllDigits(RStrip(Front(s)))

\* amount * unit of a matched timeframe, in seconds.
TimeframeSeconds(s) ==
    LET amount == DigitsVal(RStrip(Front(s)))
        unit == lower(Last(s))
    IN CASE unit = "s" -> amount
         [] unit = "m" -> amount * 60
         [] unit = "h" -> amount * 3600
         [] unit = "d" -> amount * 86400

\* ("count", N), ("time", seconds), or the SystemExit of an invalid -k value.
parse_retention(k_value) ==
    LET k == strip(k_value)
    IN IF IsInt(k) /\ IntVal(k) > 0
       THEN [mode |-> "count", param |-> IntVal(k)]
       ELSE IF TimeframeMatch(k)
            THEN [mode |-> "time", param |-> TimeframeSeconds(k)]
            ELSE [mode |-> "exit", param |-> 0]

\* ------------------------------------------------------------------- state

VARIABLES
    clock,        \* time.time(), in seconds
    keep_value,   \* the -k argument
    retention,    \* (mode, param) of run_tracking
    metadata,     \* metadata["snapshots"] in memory: records [id, timestamp]
    saved,        \* "snapshots" of the metadata.json on disk
    archives,     \* ids whose snapshot_<id>.zip exists in the store
    lpc,          \* position of the tracking loop
    observing,    \* the observer has been started
    snap_id,      \* create_snapshot's snap_id
    snap,         \* run_tracking's snap: the snapshot of the current cycle
    now_ts,       \* prune_snapshots' now_ts
    pending,      \* handler.pending
    last_change,  \* handler.last_change
    hpc,          \* position of the notification thread in the handler
    hq,           \* the paths the running on_any_event still has to mark
    events,       \* events delivered so far
    removed,      \* history: the snapshots the last prune took out
    idHistory,    \* history: every id create_snapshot assigned, in order
    marks,        \* history: changes marked since the last create began
    decisions,    \* history: snapshot decisions since the last marked change
    script,       \* which program runs the recovery: "main.py" or "cli.py"
    r_value,      \* the -r argument
    rpc,          \* position of parse_recover_point
    ts,           \* parse_recover_point's ts, the fraction num/den of a second
    how,          \* history: the interpretation that accepted r_value
    result,       \* what parse_recover_point returned or raised
    snap_tree,    \* the tree as it was captured: the archive, and snap_root once extracted
    src_tree,     \* the tree under abs_input
    spc,          \* position of the restore
    current_files,\* the files of the source tree when the restore began
    to_delete,    \* files the delete loop of the restore has still to visit
    to_copy,      \* files the copy loop of the restore has still to visit
    tmp_dir,      \* restore_snapshot's tmp_dir: "none", "exists" or "removed"
    restores,     \* restores that have returned
    first_tree,   \* history: the source tree as the first restore left it
    input_path,   \* the resolved -i argument of the running invocation
    bound_path,   \* metadata["input_path"] in memory
    disk_path,    \* "input_path" of the metadata.json on disk
    run_mode,     \* the running invocation: "track" or "recover"
    bpc,          \* position of the invocation that opens the store
    runs,         \* invocations started so far
    opened,       \* history: the paths ensure_input_path has accepted
    head,         \* cli.py: the files of the commit HEAD of repo.git, with contents
    commits,      \* cli.py: the commits made in repo.git
    files,        \* the store's metadata.json and metadata.json.tmp, as written
    wpc,          \* position of save_metadata
    version_root, \* the store directory, as a tuple of path components
    abs_input,    \* the tracked directory, as a tuple of path components
    npc           \* position of ensure_version_root_not_in_input

trackVars ==
    <<clock, keep_value, retention, metadata, saved, archives, lpc, observing,
      snap_id, snap, now_ts, pending, last_change, hpc, hq, events, removed,
      idHistory, marks, decisions>>

resolveVars == <<script, r_value, rpc, ts, how, result>>

restoreVars ==
    <<snap_tree, src_tree, spc, current_files, to_delete, to_copy, tmp_dir, restores,
      first_tree>>

bindVars == <<input_path, bound_path, disk_path, run_mode, bpc, runs, opened>>

gitVars == <<head, commits>>

fileVars == <<files, wpc>>

nestVars == <<version_root, abs_input, npc>>

sideVars == <<gitVars, fileVars, nestVars>>

extVars == <<bindVars, sideVars>>

vars == <<trackVars, resolveVars, restoreVars, extVars>>

others == <<resolveVars, restoreVars, extVars>>

NoSnap == [id |-> 0, timestamp |-> 0]

NoTime == [num |-> 0, den |-> 1]

\* A file or directory of the tracked tree: a path is a tuple of names.  The
\* name "a" may be a file or a directory holding a/a and a/b; "b" is a file.
Paths == {<<"a">>, <<"a", "a">>, <<"a", "b">>, <<"b">>}

Absent == [kind |-> "none", data |-> 0]

Dir == [kind |-> "dir", data |-> 0]

File(c) == [kind |-> "file", data |-> c]

EmptyTree == [p \in Paths |-> Absent]

\* No restore is running.
NoRestore ==
    /\ snap_tree = EmptyTree
    /\ src_tree = EmptyTree
    /\ spc = "off"
    /\ current_files = {}
    /\ to_delete = {}
    /\ to_copy = {}
    /\ tmp_dir = "none"
    /\ restores = 0
    /\ first_tree = EmptyTree

\* No store is being opened.
NoBind ==
    /\ input_path = "None"
    /\ bound_path = "None"
    /\ disk_path = "None"
    /\ run_mode = "none"
    /\ bpc = "off"
    /\ runs = 0
    /\ opened = {}

\* No repository, no save under way, no paths under test.
NoGit == head = {} /\ commits = 0

NoFiles == files = <<>> /\ wpc = "off"

NoNest == version_root = <<>> /\ abs_input = <<>> /\ npc = "off"

NoExt == NoBind /\ NoGit /\ NoFiles /\ NoNest

\* No recovery is running.
NoResolve ==
    /\ script = "main.py"
    /\ r_value = <<>>
    /\ rpc = "off"
    /\ ts = NoTime
    /\ how = "none"
    /\ result = [kind |-> "none", snap |-> NoSnap]

\* --------------------------------------------------------------- snapshots

\* sorted, with x placed after every element whose timestamp is <= x's.
RECURSIVE InsertByTimestamp(_, _)
InsertByTimestamp(sorted, x) ==
    IF sorted = <<>> THEN <<x>>
    ELSE IF Last(sorted).timestamp <= x.timestamp THEN Append(sorted, x)
    ELSE Append(InsertByTimestamp(Front(sorted), x), Last(sorted))

\* snaps.sort(key=timestamp): ascending, stable.
RECURSIVE list_snapshots(_)
list_snapshots(snaps) ==
    IF snaps = <<>> THEN <<>>
    ELSE InsertByTimestamp(list_snapshots(Front(snaps)), Last(snaps))

Ids(snaps) == {snaps[i].id : i \in 1..Len(snaps)}

Max(S) == CHOOSE m \in S : \A x \in S : x <= m

next_snapshot_id(snaps) == IF snaps = <<>> THEN 1 ELSE Max(Ids(snaps)) + 1

\* snaps[:n] in the place of snaps[-n:].
FirstN(snaps, n) ==
    IF n < Len(snaps) THEN SubSeq(snaps, 1, n) ELSE snaps

\* snaps[-n:] if n < len(snaps) else snaps
LastN(snaps, n) ==
    IF n < Len(snaps) THEN SubSeq(snaps, Len(snaps) - n + 1, Len(snaps)) ELSE snaps

\* keep_ids with the cutoff itself excluded (> in the place of >=).
keep_ids_strict(snaps, mode, param, now) ==
    IF mode = "count"
    THEN Ids(LastN(snaps, param))
    ELSE {snaps[i].id : i \in {j \in 1..Len(snaps) : snaps[j].timestamp > now - param}}

\* keep_ids of prune_snapshots, for the sorted list snaps.
keep_ids(snaps, mode, param, now) ==
    IF mode = "count"
    THEN Ids(LastN(snaps, param))
    ELSE {snaps[i].id : i \in {j \in 1..Len(snaps) : snaps[j].timestamp >= now - param}}

\* prune_snapshots taking out no more than the oldest excluded snapshot per call.
prune_snapshots_one_per_call(snaps0, disk, mode, param, now) ==
    LET snaps == list_snapshots(snaps0)
        keep == keep_ids(snaps, mode, param, now)
        out == SelectSeq(snaps, LAMBDA s : s.id \notin keep)
        drop == IF out = <<>> THEN {} ELSE {out[1].id}
    IN [snapshots |-> SelectSeq(snaps, LAMBDA s : s.id \notin drop),
        archives |-> disk \ drop,
        removed |-> SelectSeq(snaps, LAMBDA s : s.id \in drop)]

\* prune_snapshots that drops the entries and leaves the store's files alone.
prune_snapshots_metadata_only(snaps0, disk, mode, param, now) ==
    LET snaps == list_snapshots(snaps0)
        keep == keep_ids(snaps, mode, param, now)
    IN [snapshots |-> SelectSeq(snaps, LAMBDA s : s.id \in keep),
        archives |-> disk,
        removed |-> SelectSeq(snaps, LAMBDA s : s.id \notin keep)]

\* The metadata list and the archives prune_snapshots leaves, and what it took out.
prune_snapshots(snaps0, disk, mode, param, now) ==
    LET snaps == list_snapshots(snaps0)
        keep == keep_ids(snaps, mode, param, now)
    IN [snapshots |-> SelectSeq(snaps, LAMBDA s : s.id \in keep),
        archives |-> disk \ (Ids(snaps) \ keep),
        removed |-> SelectSeq(snaps, LAMBDA s : s.id \notin keep)]

\* ---------------------------------------------------------- tracking loop

KeepValues == {<<"1">>, <<"2">>, <<"0", "s">>, <<"2", "s">>, <<"0">>}

InitTrack ==
    /\ NoExt
    /\ clock = DEBOUNCE_SECONDS
    /\ keep_value \in KeepValues
    /\ retention = [mode |-> "unset", param |-> 0]
    /\ metadata = <<>>
    /\ saved = <<>>
    /\ archives = {}
    /\ lpc = "start"
    /\ observing = FALSE
    /\ snap_id = 0
    /\ snap = NoSnap
    /\ now_ts = 0
    /\ pending = FALSE
    /\ last_change = 0
    /\ hpc = "idle"
    /\ hq = <<>>
    /\ events = 0
    /\ removed = <<>>
    /\ idHistory = <<>>
    /\ marks = 0
    /\ decisions = 0
    /\ NoResolve
    /\ NoRestore

handlerVars == <<pending, last_change, hpc, hq, events>>
historyVars == <<removed, idHistory, marks, decisions>>

\* Time passes.
Tick ==
    /\ clock < MaxTime
    /\ clock' = clock + 1
    /\ UNCHANGED others
    /\ UNCHANGED <<keep_value, retention, metadata, saved, archives, lpc, observing,
                   snap_id, snap, now_ts, handlerVars, historyVars>>

\* run_tracking up to the baseline test: load_metadata, parse_retention.
Start ==
    /\ lpc = "start"
    /\ retention' = parse_retention(keep_value)
    /\ metadata' = saved
    /\ IF retention'.mode = "exit"
       THEN lpc' = "exit" /\ observing' = observing
       ELSE IF saved = <<>>
            THEN lpc' = "create" /\ observing' = observing
            ELSE lpc' = "sleep" /\ observing' = TRUE
    /\ UNCHANGED others
    /\ UNCHANGED <<clock, keep_value, saved, archives, snap_id, snap, now_ts,
                   handlerVars, historyVars>>

\* create_snapshot up to make_archive: the id is chosen and the archive written.
CreateBegin ==
    /\ lpc = "create"
    /\ snap_id' = next_snapshot_id(metadata)
    /\ IF snap_id' \in archives
       THEN lpc' = "exit" /\ archives' = archives
       ELSE lpc' = "archived" /\ archives' = archives \cup {snap_id'}
    /\ marks' = 0
    /\ UNCHANGED others
    /\ UNCHANGED <<clock, keep_value, retention, metadata, saved, observing, snap,
                   now_ts, handlerVars, removed, idHistory, decisions>>

\* create_snapshot after make_archive: the timestamp is read, the entry appended.
CreateEnd ==
    /\ lpc = "archived"
    /\ snap' = [id |-> snap_id, timestamp |-> clock]
    /\ metadata' = Append(metadata, snap')
    /\ idHistory' = Append(idHistory, snap_id)
    /\ lpc' = "prune"
    /\ UNCHANGED others
    /\ UNCHANGED <<clock, keep_value, retention, saved, archives, observing, snap_id,
                   now_ts, handlerVars, removed, marks, decisions>>

\* Prune with nothing taken out.
Prune_skipped ==
    /\ lpc = "prune"
    /\ now_ts' = clock
    /\ removed' = <<>>
    /\ lpc' = "save"
    /\ UNCHANGED others
    /\ UNCHANGED <<clock, keep_value, retention, metadata, archives, saved, observing,
                   snap_id, snap, handlerVars, idHistory, marks, decisions>>

Prune ==
    /\ lpc = "prune"
    /\ now_ts' = clock
    /\ LET r == prune_snapshots(metadata, archives, retention.mode, retention.param, clock)
       IN /\ metadata' = r.snapshots
          /\ archives' = r.archives
          /\ removed' = r.removed
    /\ lpc' = "save"
    /\ UNCHANGED others
    /\ UNCHANGED <<clock, keep_value, retention, saved, observing, snap_id, snap,
                   handlerVars, idHistory, marks, decisions>>

\* Save with the pending flag cleared at the end of the cycle.
Save_clears_pending ==
    /\ lpc = "save"
    /\ saved' = metadata
    /\ observing' = TRUE
    /\ lpc' = "sleep"
    /\ pending' = FALSE
    /\ UNCHANGED others
    /\ UNCHANGED <<clock, keep_value, retention, metadata, archives, snap_id, snap,
                   now_ts, last_change, hpc, hq, events, historyVars>>

\* save_metadata; after the baseline snapshot the observer is started.
Save ==
    /\ lpc = "save"
    /\ saved' = metadata
    /\ observing' = TRUE
    /\ lpc' = "sleep"
    /\ UNCHANGED others
    /\ UNCHANGED <<clock, keep_value, retention, metadata, archives, snap_id, snap,
                   now_ts, handlerVars, historyVars>>

\* The loop wakes up and reads handler.pending.
Poll ==
    /\ lpc = "sleep"
    /\ pending
    /\ lpc' = "check"
    /\ UNCHANGED others
    /\ UNCHANGED <<clock, keep_value, retention, metadata, saved, archives, observing,
                   snap_id, snap, now_ts, handlerVars, historyVars>>

\* Check with the loop left after a test that found the window not yet over.
Check_gives_up ==
    /\ lpc = "check"
    /\ IF clock - last_change >= DEBOUNCE_SECONDS
       THEN lpc' = "clear" /\ decisions' = decisions + 1
       ELSE lpc' = "exit" /\ decisions' = decisions
    /\ UNCHANGED others
    /\ UNCHANGED <<clock, keep_value, retention, metadata, saved, archives, observing,
                   snap_id, snap, now_ts, handlerVars, removed, idHistory, marks>>

\* (time.time() - handler.last_change) >= DEBOUNCE_SECONDS
Check ==
    /\ lpc = "check"
    /\ IF clock - last_change >= DEBOUNCE_SECONDS
       THEN lpc' = "clear" /\ decisions' = decisions + 1
       ELSE lpc' = "sleep" /\ decisions' = decisions
    /\ UNCHANGED others
    /\ UNCHANGED <<clock, keep_value, retention, metadata, saved, archives, observing,
                   snap_id, snap, now_ts, handlerVars, removed, idHistory, marks>>

\* Clear with the assignment to handler.pending left out.
Clear_skipped ==
    /\ lpc = "clear"
    /\ lpc' = "create"
    /\ UNCHANGED others
    /\ UNCHANGED <<clock, keep_value, retention, metadata, saved, archives, observing,
                   snap_id, snap, now_ts, handlerVars, historyVars>>

\* handler.pending = False
Clear ==
    /\ lpc = "clear"
    /\ pending' = FALSE
    /\ lpc' = "create"
    /\ UNCHANGED others
    /\ UNCHANGED <<clock, keep_value, retention, metadata, saved, archives, observing,
                   snap_id, snap, now_ts, last_change, hpc, hq, events, historyVars>>

\* ------------------------------------------------------------ the handler

input_root == <<"w">>

NoAttr == <<"<no attribute>">>

IsPrefix(p, q) == Len(p) <= Len(q) /\ SubSeq(q, 1, Len(p)) = p

\* The handler with no test of the path against the root.
inside_unfiltered(abs_path) == TRUE

\* os.path.commonpath([abs_path, input_root]) == input_root
inside(abs_path) == IsPrefix(input_root, abs_path)

EventSet ==
    {[is_directory |-> FALSE, src_path |-> <<"w", "f">>, dest_path |-> NoAttr],
     [is_directory |-> FALSE, src_path |-> <<"o", "f">>, dest_path |-> NoAttr],
     [is_directory |-> FALSE, src_path |-> <<"o", "f">>, dest_path |-> <<"w", "f">>],
     [is_directory |-> FALSE, src_path |-> <<>>, dest_path |-> NoAttr],
     [is_directory |-> TRUE, src_path |-> <<"w", "d">>, dest_path |-> NoAttr]}

\* on_any_event: a directory event is dropped, else src_path and dest_path are marked.
OnAnyEvent ==
    /\ observing /\ hpc = "idle" /\ events < MaxEvents
    /\ lpc # "exit"
    /\ \E e \in EventSet :
         IF e.is_directory
         THEN hq' = hq /\ hpc' = hpc
         ELSE /\ hq' = IF e.dest_path = NoAttr THEN <<e.src_path>>
                       ELSE <<e.src_path, e.dest_path>>
              /\ hpc' = "mark"
    /\ events' = events + 1
    /\ UNCHANGED others
    /\ UNCHANGED <<clock, keep_value, retention, metadata, saved, archives, lpc,
                   observing, snap_id, snap, now_ts, pending, last_change, historyVars>>

AfterMark(rest) == IF rest = <<>> THEN "idle" ELSE "mark"

\* _mark_change up to self.pending = True
MarkChange ==
    /\ hpc = "mark"
    /\ IF Head(hq) # <<>> /\ inside(Head(hq))
       THEN /\ pending' = TRUE
            /\ hpc' = "stamp"
            /\ hq' = hq
            /\ marks' = marks + 1
            /\ decisions' = 0
       ELSE /\ hq' = Tail(hq)
            /\ hpc' = AfterMark(Tail(hq))
            /\ UNCHANGED <<pending, marks, decisions>>
    /\ UNCHANGED others
    /\ UNCHANGED <<clock, keep_value, retention, metadata, saved, archives, lpc,
                   observing, snap_id, snap, now_ts, last_change, events, removed,
                   idHistory>>

\* self.last_change = time.time()
StampChange ==
    /\ hpc = "stamp"
    /\ last_change' = clock
    /\ hq' = Tail(hq)
    /\ hpc' = AfterMark(Tail(hq))
    /\ UNCHANGED others
    /\ UNCHANGED <<clock, keep_value, retention, metadata, saved, archives, lpc,
                   observing, snap_id, snap, now_ts, pending, events, historyVars>>

Next ==
    \/ Tick
    \/ Start
    \/ CreateBegin
    \/ CreateEnd
    \/ Prune
    \/ Save
    \/ Poll
    \/ Check
    \/ Clear
    \/ OnAnyEvent
    \/ MarkChange
    \/ StampChange

Spec == InitTrack /\ [][Next]_vars

\* The loop of run_tracking never stops polling (while True: time.sleep), the
\* steps of a cycle return, the observer thread runs on, and time passes.
LoopStep ==
    \/ Start
    \/ CreateBegin
    \/ CreateEnd
    \/ Prune
    \/ Save
    \/ Poll
    \/ Check
    \/ Clear

\* Tracking started on a fresh store with -k 1.
InitLive == InitTrack /\ keep_value = <<"1">>

SpecLive ==
    /\ InitLive
    /\ [][Next]_vars
    /\ WF_vars(LoopStep)
    /\ WF_vars(Tick)
    /\ WF_vars(MarkChange \/ StampChange)

\* ------------------------------------------------- prune_snapshots alone

\* Every stored list of at most MaxSnaps snapshots: the ids ascend (entries are
\* appended in the order of creation), the timestamps come in any order (the
\* wall clock may have been set back between two runs).
Snapshots == [id : 1..(MaxSnaps + 1), timestamp : 0..MaxStamp]

RECURSIVE SeqsUpTo(_, _)
SeqsUpTo(S, n) ==
    IF n = 0 THEN {<<>>}
    ELSE LET shorter == SeqsUpTo(S, n - 1)
         IN shorter \cup {Append(q, x) : q \in {r \in shorter : Len(r) = n - 1}, x \in S}

Collections ==
    {q \in SeqsUpTo(Snapshots, MaxSnaps) :
        \A i, j \in 1..Len(q) : i < j => q[i].id < q[j].id}

PruneKeepValues == {<<"1">>, <<"2">>, <<"3">>, <<"0", "s">>, <<"1", "s">>, <<"2", "s">>}

\* The handler at rest and empty histories.
Quiet ==
    /\ pending = FALSE
    /\ last_change = 0
    /\ hpc = "idle"
    /\ hq = <<>>
    /\ events = 0
    /\ removed = <<>>
    /\ idHistory = <<>>
    /\ marks = 0
    /\ decisions = 0

\* A stored collection with its archives, about to be pruned at time clock.
InitPrune ==
    /\ NoExt
    /\ clock \in 0..(MaxStamp + 1)
    /\ keep_value \in PruneKeepValues
    /\ retention = parse_retention(keep_value)
    /\ saved \in Collections
    /\ metadata = saved
    /\ archives = Ids(saved)
    /\ lpc = "prune"
    /\ observing = FALSE
    /\ snap_id = 0
    /\ snap = NoSnap
    /\ now_ts = 0
    /\ Quiet
    /\ NoResolve
    /\ NoRestore

\* prune_snapshots called once more on what it left, at the same time.
PruneAgain ==
    /\ lpc = "save"
    /\ LET r == prune_snapshots(metadata, archives, retention.mode, retention.param, now_ts)
       IN /\ metadata' = r.snapshots
          /\ archives' = r.archives
          /\ removed' = r.removed
    /\ lpc' = "pruned"
    /\ UNCHANGED others
    /\ UNCHANGED <<clock, keep_value, retention, saved, observing, snap_id, snap,
                   now_ts, handlerVars, idHistory, marks, decisions>>

NextPrune ==
    \/ Prune
    \/ PruneAgain

SpecPrune == InitPrune /\ [][NextPrune]_vars

Elems(q) == {q[i] : i \in 1..Len(q)}

Min(a, b) == IF a <= b THEN a ELSE b

\* C4: after prune with Count(n) the collection has exactly min(n, total)
\* snapshots, in ascending timestamp order, and no removed snapshot is more
\* recent than a kept one: they are the n last of the ascending order.
CountKeepsLastN ==
    (lpc = "save" /\ retention.mode = "count") =>
        /\ Elems(metadata) \cup Elems(removed) = Elems(saved)
        /\ Len(metadata) = Min(retention.param, Len(saved))
        /\ \A i, j \in 1..Len(metadata) :
               i < j => metadata[i].timestamp <= metadata[j].timestamp
        /\ \A r \in Elems(removed), k \in Elems(metadata) : r.timestamp <= k.timestamp
        /\ list_snapshots(saved) = removed \o metadata

\* Count(2) has cut a collection of three down to its two most recent.
CountWitness ==
    /\ lpc = "save" /\ retention = [mode |-> "count", param |-> 2]
    /\ Len(saved) = 3 /\ Len(metadata) = 2 /\ Len(removed) = 1
    /\ saved[1].timestamp > saved[2].timestamp

\* C5: after prune with Duration(d) at time now, every kept snapshot has
\* timestamp >= now - d and every removed one has timestamp < now - d.
DurationKeepsRecent ==
    (lpc = "save" /\ retention.mode = "time") =>
        /\ Elems(metadata) \cup Elems(removed) = Elems(saved)
        /\ Elems(metadata) \cap Elems(removed) = {}
        /\ \A k \in Elems(metadata) : k.timestamp >= now_ts - retention.param
        /\ \A r \in Elems(removed) : r.timestamp < now_ts - retention.param

\* Duration(1) has kept a snapshot taken exactly at the cutoff with a second
\* one, and removed an older one.
DurationWitness ==
    /\ lpc = "save" /\ retention = [mode |-> "time", param |-> 1]
    /\ Len(metadata) = 2 /\ Len(removed) = 1
    /\ \E k \in Elems(metadata) : k.timestamp = now_ts - 1

\* C15: prune applied again to the pruned collection, with the same retention
\* and the same now, removes no snapshot, deletes no archive and leaves the
\* collection as it is.
PruneIdempotent ==
    [][PruneAgain => (metadata' = metadata /\ archives' = archives /\ removed' = <<>>)]_vars

\* Duration(1) has been applied a second time to the one snapshot it had
\* left of three.
PruneTwiceWitness ==
    /\ lpc = "pruned" /\ retention = [mode |-> "time", param |-> 1]
    /\ Len(saved) = 3 /\ Len(metadata) = 1 /\ archives = Ids(metadata)

\* ----------------------------------------------------- parse_recover_point

\* The position idx selects among n snapshots, 0-based, or -1 where the code
\* exits with "out of range", with n - idx in the place of n - 1 - idx.
index_pos_shifted(idx, n) ==
    LET pos == IF idx >= 0 THEN n - idx ELSE -(idx + 1)
    IN IF pos < 0 \/ pos >= n THEN -1 ELSE pos

\* The position idx selects among n snapshots, 0-based, or -1 where the code
\* exits with "out of range".
index_pos(idx, n) ==
    LET pos == IF idx >= 0 THEN n - 1 - idx ELSE -(idx + 1)
    IN IF pos < 0 \/ pos >= n THEN -1 ELSE pos

IndexOf(s, c) == IF \E i \in 1..Len(s) : s[i] = c
                 THEN CHOOSE i \in 1..Len(s) : s[i] = c /\ \A j \in 1..(i - 1) : s[j] # c
                 ELSE 0

\* re.fullmatch(r"\d+(\.\d+)?", s) is not None.
TimestampMatch(s) ==
    LET dot == IndexOf(s, ".")
    IN IF dot = 0 THEN AllDigits(s)
       ELSE AllDigits(SubSeq(s, 1, dot - 1)) /\ AllDigits(SubSeq(s, dot + 1, Len(s)))

RECURSIVE Pow10(_)
Pow10(k) == IF k = 0 THEN 1 ELSE 10 * Pow10(k - 1)

\* float(s) of a matched timestamp, as an exact fraction.
FloatVal(s) ==
    LET dot == IndexOf(s, ".")
        frac == IF dot = 0 THEN <<>> ELSE SubSeq(s, dot + 1, Len(s))
        whole == IF dot = 0 THEN s ELSE SubSeq(s, 1, dot - 1)
    IN [num |-> DigitsVal(whole \o frac), den |-> Pow10(Len(frac))]

\* s.replace(" ", "T")
ReplaceSpaces(s) == [i \in 1..Len(s) |-> IF s[i] = " " THEN "T" ELSE s[i]]

Has(s, c) == \E i \in 1..Len(s) : s[i] = c

\* The string handed to datetime.fromisoformat.
IsoInput(r) ==
    LET s == strip(r)
    IN IF Has(s, " ") /\ ~Has(s, "T") THEN ReplaceSpaces(s) ELSE s

Num2(s, i) == 10 * DigitVal(s[i]) + DigitVal(s[i + 1])

IsLeap(y) == (y % 4 = 0 /\ y % 100 # 0) \/ y % 400 = 0

DaysInMonth(y, m) ==
    IF m = 2 THEN (IF IsLeap(y) THEN 29 ELSE 28)
    ELSE IF m \in {4, 6, 9, 11} THEN 30 ELSE 31

\* YYYY-MM-DD at the head of s names a date of the calendar.
IsoDateOk(s) ==
    /\ Len(s) >= 10
    /\ \A i \in {1, 2, 3, 4, 6, 7, 9, 10} : s[i] \in Digits
    /\ s[5] = "-" /\ s[8] = "-"
    /\ DigitsVal(SubSeq(s, 1, 4)) >= 1
    /\ Num2(s, 6) \in 1..12
    /\ Num2(s, 9) \in 1..DaysInMonth(DigitsVal(SubSeq(s, 1, 4)), Num2(s, 6))

\* <any one character>HH:MM:SS after the date names a time of the day.
IsoTimeOk(s) ==
    /\ Len(s) = 19
    /\ \A i \in {12, 13, 15, 16, 18, 19} : s[i] \in Digits
    /\ s[14] = ":" /\ s[17] = ":"
    /\ Num2(s, 12) < 24 /\ Num2(s, 15) < 60 /\ Num2(s, 18) < 60

\* datetime.fromisoformat(s) does not raise ValueError, for the shapes
\* YYYY-MM-DD and YYYY-MM-DD?HH:MM:SS (fractions, offsets and the shorter
\* times are not among the strings drawn here).
IsoMatch(s) == IsoDateOk(s) /\ (Len(s) = 10 \/ IsoTimeOk(s))

\* Days from 1970-01-01 to y-m-d in the proleptic Gregorian calendar.
DaysFromCivil(y, m, d) ==
    LET yy == IF m <= 2 THEN y - 1 ELSE y
        era == yy \div 400
        yoe == yy - era * 400
        mp == IF m > 2 THEN m - 3 ELSE m + 9
        doy == (153 * mp + 2) \div 5 + d - 1
        doe == yoe * 365 + yoe \div 4 - yoe \div 100 + doy
    IN era * 146097 + doe - 719468

\* dt.timestamp() of the parsed datetime, the local zone being UTC.
IsoSeconds(s) ==
    LET days == DaysFromCivil(DigitsVal(SubSeq(s, 1, 4)), Num2(s, 6), Num2(s, 9))
        secs == IF Len(s) = 10 THEN 0
                ELSE Num2(s, 12) * 3600 + Num2(s, 15) * 60 + Num2(s, 18)
    IN days * 86400 + secs

\* The scan of the sorted list from position i, with < in the place of <=.
RECURSIVE scan_strict(_, _, _, _)
scan_strict(snaps, i, candidate, t) ==
    IF i > Len(snaps) THEN candidate
    ELSE IF snaps[i].timestamp * t.den < t.num
         THEN scan_strict(snaps, i + 1, snaps[i], t)
         ELSE candidate

\* The scan of the sorted list from position i: the candidate moves on while
\* timestamp <= ts, and the loop breaks at the first later snapshot.
RECURSIVE scan(_, _, _, _)
scan(snaps, i, candidate, t) ==
    IF i > Len(snaps) THEN candidate
    ELSE IF snaps[i].timestamp * t.den <= t.num
         THEN scan(snaps, i + 1, snaps[i], t)
         ELSE candidate

Raised(kind) == [kind |-> kind, snap |-> NoSnap]

Returned(s) == [kind |-> "snapshot", snap |-> s]

RecoverValues ==
    {<<"0">>, <<"1">>, <<"2">>, <<"3">>, <<"-", "1">>, <<"-", "2">>, <<"-", "3">>,
     <<"-", "4">>, <<" ", "1">>, <<"-", "0">>,
     <<"1", "s">>, <<"2", "S">>, <<"1", " ", "s">>, <<"1", "m">>,
     <<"1", ".", "5">>, <<"0", ".", "5">>, <<"2", ".", "0">>, <<"1", "0", ".", "2", "5">>,
     <<"1", "9", "7", "0", "-", "0", "1", "-", "0", "1", "T", "0", "0", ":", "0", "0", ":", "0", "1">>,
     <<"1", "9", "7", "0", "-", "0", "1", "-", "0", "1", " ", "0", "0", ":", "0", "0", ":", "0", "2">>,
     <<"1", "9", "7", "0", "-", "0", "1", "-", "0", "1">>,
     <<"1", "9", "6", "9", "-", "1", "2", "-", "3", "1">>,
     <<"1", "9", "7", "0", "-", "0", "2", "-", "3", "0">>,
     <<"1", ".">>, <<"1", "s", "2">>, <<"x">>, <<>>}

\* A stored collection and a recovery point, about to be resolved at time clock.
InitResolve ==
    /\ NoExt
    /\ clock \in {MaxStamp, MaxStamp + 1}
    /\ keep_value = <<>>
    /\ retention = [mode |-> "unset", param |-> 0]
    /\ saved \in Collections
    /\ metadata = saved
    /\ archives = Ids(saved)
    /\ lpc = "off"
    /\ observing = FALSE
    /\ snap_id = 0
    /\ snap = NoSnap
    /\ now_ts = 0
    /\ Quiet
    /\ script \in {"main.py", "cli.py"}
    /\ r_value \in RecoverValues
    /\ rpc = "index"
    /\ ts = NoTime
    /\ how = "none"
    /\ result = [kind |-> "none", snap |-> NoSnap]
    /\ NoRestore

\* ResolveIndex with an out-of-range index handed on to the later
\* interpretations (the exit caught with the ValueError).
ResolveIndex_falls_through ==
    /\ rpc = "index"
    /\ metadata' = list_snapshots(metadata)
    /\ IF metadata = <<>>
       THEN rpc' = "done" /\ result' = Raised("NoSnapshots") /\ how' = how
       ELSE IF IsInt(r_value) /\ index_pos(IntVal(r_value), Len(metadata)) # -1
            THEN /\ rpc' = "done"
                 /\ how' = "index"
                 /\ result' = Returned(metadata'[index_pos(IntVal(r_value), Len(metadata)) + 1])
            ELSE /\ rpc' = IF script = "cli.py" THEN "timedelta" ELSE "timestamp"
                 /\ UNCHANGED <<how, result>>
    /\ UNCHANGED <<clock, keep_value, retention, saved, archives, lpc, observing,
                   snap_id, snap, now_ts, handlerVars, historyVars, script, r_value, ts,
                   restoreVars, extVars>>

\* list_snapshots sorts metadata in place; no snapshots, or int(r_value).
ResolveIndex ==
    /\ rpc = "index"
    /\ metadata' = list_snapshots(metadata)
    /\ IF metadata = <<>>
       THEN rpc' = "done" /\ result' = Raised("NoSnapshots") /\ how' = how
       ELSE IF IsInt(r_value)
            THEN LET pos == index_pos(IntVal(r_value), Len(metadata))
                 IN /\ rpc' = "done"
                    /\ how' = "index"
                    /\ result' = IF pos = -1 THEN Raised("IndexOutOfRange")
                                 ELSE Returned(metadata'[pos + 1])
            ELSE /\ rpc' = IF script = "cli.py" THEN "timedelta" ELSE "timestamp"
                 /\ UNCHANGED <<how, result>>
    /\ UNCHANGED <<clock, keep_value, retention, saved, archives, lpc, observing,
                   snap_id, snap, now_ts, handlerVars, historyVars, script, r_value, ts,
                   restoreVars, extVars>>

\* cli.py only: a timedelta such as "30m" gives ts = time.time() - seconds.
ResolveTimedelta ==
    /\ rpc = "timedelta"
    /\ IF TimeframeMatch(strip(r_value))
       THEN /\ ts' = [num |-> clock - TimeframeSeconds(strip(r_value)), den |-> 1]
            /\ how' = "timedelta"
            /\ rpc' = "scan"
       ELSE rpc' = "timestamp" /\ UNCHANGED <<ts, how>>
    /\ UNCHANGED <<trackVars, script, r_value, result, restoreVars, extVars>>

\* A string of digits with an optional fraction gives ts = float(r_value).
ResolveTimestamp ==
    /\ rpc = "timestamp"
    /\ IF TimestampMatch(r_value)
       THEN ts' = FloatVal(r_value) /\ how' = "timestamp" /\ rpc' = "scan"
       ELSE rpc' = "datetime" /\ UNCHANGED <<ts, how>>
    /\ UNCHANGED <<trackVars, script, r_value, result, restoreVars, extVars>>

\* Anything else goes to datetime.fromisoformat.
ResolveDatetime ==
    /\ rpc = "datetime"
    /\ IF IsoMatch(IsoInput(r_value))
       THEN /\ ts' = [num |-> IsoSeconds(IsoInput(r_value)), den |-> 1]
            /\ how' = "datetime"
            /\ rpc' = "scan"
            /\ result' = result
       ELSE /\ rpc' = "done"
            /\ result' = Raised("InvalidRecoveryPoint")
            /\ UNCHANGED <<ts, how>>
    /\ UNCHANGED <<trackVars, script, r_value, restoreVars, extVars>>

\* The latest snapshot at or before ts, or the exit when there is none.
ResolveScan ==
    /\ rpc = "scan"
    /\ LET candidate == scan(metadata, 1, NoSnap, ts)
       IN result' = IF candidate = NoSnap THEN Raised("NoSnapshotBeforeTime")
                    ELSE Returned(candidate)
    /\ rpc' = "done"
    /\ UNCHANGED <<trackVars, script, r_value, ts, how, restoreVars, extVars>>

NextResolve ==
    \/ ResolveIndex
    \/ ResolveTimedelta
    \/ ResolveTimestamp
    \/ ResolveDatetime
    \/ ResolveScan

SpecResolve == InitResolve /\ [][NextResolve]_vars

\* ----------------------------------------------------------------- restore

Parent(p) == Front(p)

\* The trees of the file system: what lies in a directory has a directory above.
Trees ==
    {t \in [Paths -> {Absent, Dir} \cup {File(c) : c \in 1..MaxContent}] :
        /\ \A p \in Paths : Len(p) = 2 => t[p] # Dir
        /\ \A p \in Paths : (Len(p) = 2 /\ t[p] # Absent) => t[Parent(p)] = Dir
        /\ t[<<"b">>] # Dir}

\* os.walk: the root-relative paths of the files of a tree.
build_rel_paths(tree) == {p \in Paths : tree[p].kind = "file"}

\* The tree is captured into the archive of snapshot 1, and the source is edited.
InitRestore ==
    /\ NoExt
    /\ clock = 0
    /\ keep_value = <<>>
    /\ retention = [mode |-> "unset", param |-> 0]
    /\ saved = <<[id |-> 1, timestamp |-> 0]>>
    /\ metadata = saved
    /\ archives = {1}
    /\ lpc = "off"
    /\ observing = FALSE
    /\ snap_id = 0
    /\ snap = saved[1]
    /\ now_ts = 0
    /\ Quiet
    /\ NoResolve
    /\ snap_tree \in Trees
    /\ src_tree = snap_tree
    /\ spc = "edit"
    /\ current_files = {}
    /\ to_delete = {}
    /\ to_copy = {}
    /\ tmp_dir = "none"
    /\ restores = 0
    /\ first_tree = EmptyTree

CanHold(tree, p) == IF Len(p) = 1 THEN TRUE ELSE tree[Parent(p)] = Dir

syncVars == <<current_files, to_delete, to_copy>>

\* A file is added, or the content of a file is changed.
WriteFile ==
    /\ spc = "edit"
    /\ \E p \in Paths, c \in 1..MaxContent :
         /\ CanHold(src_tree, p)
         /\ src_tree[p] \in {Absent} \cup {File(d) : d \in 1..MaxContent}
         /\ src_tree[p] # File(c)
         /\ src_tree' = [src_tree EXCEPT ![p] = File(c)]
    /\ UNCHANGED <<trackVars, resolveVars, extVars, snap_tree, spc, syncVars, tmp_dir,
                   restores, first_tree>>

\* A file is removed.
RemoveFile ==
    /\ spc = "edit"
    /\ \E p \in Paths :
         /\ src_tree[p].kind = "file"
         /\ src_tree' = [src_tree EXCEPT ![p] = Absent]
    /\ UNCHANGED <<trackVars, resolveVars, extVars, snap_tree, spc, syncVars, tmp_dir,
                   restores, first_tree>>

\* A directory is made where nothing is.
MakeDir ==
    /\ spc = "edit"
    /\ src_tree[<<"a">>] = Absent
    /\ src_tree' = [src_tree EXCEPT ![<<"a">>] = Dir]
    /\ UNCHANGED <<trackVars, resolveVars, extVars, snap_tree, spc, syncVars, tmp_dir,
                   restores, first_tree>>

\* An empty directory is removed.
RemoveDir ==
    /\ spc = "edit"
    /\ src_tree[<<"a">>] = Dir
    /\ \A p \in Paths : Len(p) = 2 => src_tree[p] = Absent
    /\ src_tree' = [src_tree EXCEPT ![<<"a">>] = Absent]
    /\ UNCHANGED <<trackVars, resolveVars, extVars, snap_tree, spc, syncVars, tmp_dir,
                   restores, first_tree>>

\* restore_snapshot up to the try: tempfile.mkdtemp in the store.  A second
\* restore to the same snapshot may follow the first at once.
Mkdtemp ==
    /\ spc \in {"edit", "done"} /\ restores < 2
    /\ snap.id \in archives
    /\ tmp_dir' = "exists"
    /\ spc' = "extract"
    /\ UNCHANGED <<trackVars, resolveVars, extVars, snap_tree, src_tree, syncVars,
                   restores, first_tree>>

\* zf.extractall(tmp_dir): the captured tree lies under snap_root.
Extract ==
    /\ spc = "extract"
    /\ spc' = "sync"
    /\ UNCHANGED <<trackVars, resolveVars, extVars, snap_tree, src_tree, syncVars,
                   tmp_dir, restores, first_tree>>

\* The extraction, a delete or a copy raises (a damaged archive, an OSError).
Fail ==
    /\ spc \in {"extract", "sync", "restoring"}
    /\ spc' = "failing"
    /\ UNCHANGED <<trackVars, resolveVars, extVars, snap_tree, src_tree, syncVars,
                   tmp_dir, restores, first_tree>>

Running(td, tc) == IF td = {} /\ tc = {} THEN "finally" ELSE "restoring"

\* RestoreBegin with every current file deleted and only the files the source
\* lacks copied.
RestoreBegin_copies_missing ==
    /\ spc = "sync"
    /\ current_files' = build_rel_paths(src_tree)
    /\ LET snap_files == build_rel_paths(snap_tree)
       IN /\ to_delete' = current_files'
          /\ to_copy' = snap_files \ current_files'
    /\ spc' = Running(to_delete', to_copy')
    /\ UNCHANGED <<trackVars, resolveVars, extVars, snap_tree, src_tree, tmp_dir,
                   restores, first_tree>>

\* _do_restore_from_root up to the loops: the two file sets and their difference.
RestoreBegin ==
    /\ spc = "sync"
    /\ current_files' = build_rel_paths(src_tree)
    /\ LET snap_files == build_rel_paths(snap_tree)
       IN /\ to_delete' = current_files' \ snap_files
          /\ to_copy' = snap_files
    /\ spc' = Running(to_delete', to_copy')
    /\ UNCHANGED <<trackVars, resolveVars, extVars, snap_tree, src_tree, tmp_dir,
                   restores, first_tree>>

\* One round of the delete loop: os.remove if the path is a file.
DeleteOne ==
    /\ spc = "restoring"
    /\ \E rel \in to_delete :
         /\ src_tree' = IF src_tree[rel].kind = "file"
                        THEN [src_tree EXCEPT ![rel] = Absent]
                        ELSE src_tree
         /\ to_delete' = to_delete \ {rel}
    /\ spc' = Running(to_delete', to_copy)
    /\ UNCHANGED <<trackVars, resolveVars, extVars, snap_tree, current_files, to_copy,
                   tmp_dir, restores, first_tree>>

\* Where shutil.copy2(src, dst) writes: into dst when dst is a directory.
copy_target(tree, rel) == IF tree[rel] = Dir THEN Append(rel, Last(rel)) ELSE rel

\* One round of the copy loop: os.makedirs(dst_dir, exist_ok=True), then
\* shutil.copy2(src, dst).
CopyOne ==
    /\ spc = "restoring" /\ to_delete = {}
    /\ \E rel \in to_copy :
         LET made == IF Len(rel) = 2 /\ src_tree[Parent(rel)] = Absent
                     THEN [src_tree EXCEPT ![Parent(rel)] = Dir]
                     ELSE src_tree
         IN IF Len(rel) = 2 /\ src_tree[Parent(rel)].kind = "file"
            THEN spc' = "failing" /\ UNCHANGED <<src_tree, to_copy>>
            ELSE /\ src_tree' = [made EXCEPT ![copy_target(made, rel)] = snap_tree[rel]]
                 /\ to_copy' = to_copy \ {rel}
                 /\ spc' = Running(to_delete, to_copy')
    /\ UNCHANGED <<trackVars, resolveVars, extVars, snap_tree, current_files, to_delete,
                   tmp_dir, restores, first_tree>>

\* Cleanup with the rmtree after the sync in the place of in a finally clause.
Cleanup_on_return ==
    /\ spc \in {"finally", "failing"}
    /\ tmp_dir' = IF spc = "finally" THEN "removed" ELSE tmp_dir
    /\ spc' = IF spc = "finally" THEN "done" ELSE "raised"
    /\ restores' = IF spc = "finally" THEN restores + 1 ELSE restores
    /\ first_tree' = IF spc = "finally" /\ restores = 0 THEN src_tree ELSE first_tree
    /\ UNCHANGED <<trackVars, resolveVars, extVars, snap_tree, src_tree, syncVars>>

\* finally: shutil.rmtree(tmp_dir, ignore_errors=True); restore_snapshot
\* returns, or the exception goes on to the caller.
Cleanup ==
    /\ spc \in {"finally", "failing"}
    /\ tmp_dir' = "removed"
    /\ spc' = IF spc = "finally" THEN "done" ELSE "raised"
    /\ restores' = IF spc = "finally" THEN restores + 1 ELSE restores
    /\ first_tree' = IF spc = "finally" /\ restores = 0 THEN src_tree ELSE first_tree
    /\ UNCHANGED <<trackVars, resolveVars, extVars, snap_tree, src_tree, syncVars>>

NextRestore ==
    \/ WriteFile
    \/ RemoveFile
    \/ MakeDir
    \/ RemoveDir
    \/ Mkdtemp
    \/ Extract
    \/ Fail
    \/ RestoreBegin
    \/ DeleteOne
    \/ CopyOne
    \/ Cleanup

SpecRestore == InitRestore /\ [][NextRestore]_vars

\* ------------------------------------------------------- the store binding

\* A store used by a sequence of invocations, each with its own source path.
SourcePaths == {"A", "B"}

InitBind ==
    /\ clock = 0
    /\ keep_value = <<>>
    /\ retention = [mode |-> "unset", param |-> 0]
    /\ metadata = <<>>
    /\ saved = <<>>
    /\ archives = {}
    /\ lpc = "off"
    /\ observing = FALSE
    /\ snap_id = 0
    /\ snap = NoSnap
    /\ now_ts = 0
    /\ Quiet
    /\ script \in {"main.py", "cli.py"}
    /\ r_value = <<>>
    /\ rpc = "off"
    /\ ts = NoTime
    /\ how = "none"
    /\ result = [kind |-> "none", snap |-> NoSnap]
    /\ NoRestore
    /\ input_path = "None"
    /\ bound_path = "None"
    /\ disk_path = "None"
    /\ run_mode = "none"
    /\ bpc = "idle"
    /\ runs = 0
    /\ opened = {}
    /\ NoGit /\ NoFiles /\ NoNest

\* An invocation starts: load_metadata reads the document on disk.
Invoke ==
    /\ bpc = "idle" /\ runs < MaxRuns
    /\ runs' = runs + 1
    /\ \E i \in SourcePaths, m \in {"track", "recover"} :
         /\ input_path' = i
         /\ run_mode' = m
         /\ keep_value' \in IF m = "track" /\ script = "main.py"
                            THEN {<<"1">>, <<"x">>} ELSE {<<>>}
    /\ bound_path' = disk_path
    /\ metadata' = saved
    /\ retention' = [mode |-> "unset", param |-> 0]
    /\ bpc' = "loaded"
    /\ UNCHANGED <<clock, saved, archives, lpc, observing, snap_id, snap, now_ts,
                   handlerVars, historyVars, resolveVars, restoreVars, sideVars, disk_path,
                   opened>>

\* ensure_input_path: the store is bound, found bound to this path, or the
\* invocation exits with the conflict.
EnsureInputPath ==
    /\ bpc = "loaded"
    /\ IF bound_path = "None"
       THEN bound_path' = input_path /\ bpc' = "opened"
       ELSE IF bound_path # input_path
            THEN bound_path' = bound_path /\ bpc' = "conflict"
            ELSE bound_path' = bound_path /\ bpc' = "opened"
    /\ opened' = IF bpc' = "opened" THEN opened \cup {input_path} ELSE opened
    /\ UNCHANGED <<trackVars, resolveVars, restoreVars, sideVars, input_path, disk_path, run_mode,
                   runs>>

\* main.py only: parse_retention, which exits on an invalid -k.
BindRetention ==
    /\ bpc = "opened" /\ run_mode = "track" /\ script = "main.py"
    /\ retention.mode = "unset"
    /\ retention' = parse_retention(keep_value)
    /\ UNCHANGED <<clock, keep_value, metadata, saved, archives, lpc, observing,
                   snap_id, snap, now_ts, handlerVars, historyVars, others>>

\* One snapshot cycle of tracking that ends in save_metadata: main.py creates,
\* prunes and saves; cli.py saves when create_snapshot has made a commit.
TrackSave ==
    /\ bpc = "opened" /\ run_mode = "track"
    /\ script = "main.py" => retention.mode \in {"count", "time"}
    /\ next_snapshot_id(metadata) <= MaxSnaps
    /\ snap_id' = next_snapshot_id(metadata)
    /\ snap' = [id |-> snap_id', timestamp |-> clock]
    /\ IF script = "main.py"
       THEN LET r == prune_snapshots(Append(metadata, snap'), archives \cup {snap_id'},
                                     retention.mode, retention.param, clock)
            IN metadata' = r.snapshots /\ archives' = r.archives
       ELSE metadata' = Append(metadata, snap') /\ archives' = archives
    /\ saved' = metadata'
    /\ disk_path' = bound_path
    /\ UNCHANGED <<clock, keep_value, retention, lpc, observing, now_ts, handlerVars,
                   historyVars, resolveVars, restoreVars, sideVars, input_path, bound_path, run_mode,
                   bpc, runs, opened>>

\* The invocation ends: with the conflict; after a recovery, which saves
\* nothing; on an invalid -k; in cli.py with nothing to commit; or on an
\* interrupt of the tracking loop, which main.py enters after its baseline.
EndRun ==
    /\ \/ bpc = "conflict"
       \/ bpc = "opened" /\ run_mode = "recover"
       \/ bpc = "opened" /\ run_mode = "track" /\ script = "cli.py"
       \/ bpc = "opened" /\ run_mode = "track" /\ retention.mode = "exit"
       \/ bpc = "opened" /\ run_mode = "track" /\ retention.mode \in {"count", "time"}
            /\ metadata # <<>>
    /\ bpc' = "idle"
    /\ UNCHANGED <<trackVars, resolveVars, restoreVars, sideVars, input_path, bound_path,
                   disk_path, run_mode, runs, opened>>

NextBind ==
    \/ Invoke
    \/ EnsureInputPath
    \/ BindRetention
    \/ TrackSave
    \/ EndRun

SpecBind == InitBind /\ [][NextBind]_vars

\* C11: once the store has been opened for a path, every later open with a
\* different path fails with the conflict, whatever the invocations were; and
\* the persisted input_path, once set, is that first path for good.
StoreBinding ==
    /\ Cardinality(opened) <= 1
    /\ disk_path # "None" => opened = {disk_path}

\* ------------------------------------------------------------ cancellation

\* Ctrl+C: KeyboardInterrupt is raised in the main thread at whatever
\* statement it is running; the loop is left at once through except and
\* finally, where the observer is stopped.  Before the loop is entered (the
\* baseline snapshot) the exception ends the process uncaught.
Interrupt ==
    /\ lpc \in {"create", "archived", "prune", "save", "sleep", "check", "clear"}
    /\ lpc' = IF observing THEN "stopped" ELSE "killed"
    /\ observing' = FALSE
    /\ UNCHANGED others
    /\ UNCHANGED <<clock, keep_value, retention, metadata, saved, archives, snap_id,
                   snap, now_ts, handlerVars, historyVars>>

NextCancel ==
    \/ Next
    \/ Interrupt

SpecCancel == InitTrack /\ [][NextCancel]_vars

\* ------------------------------------------------- tracking run after run

\* The next invocation of main.py -k on the same store: a new process, with
\* a new handler and nothing in memory; the store is as the last run left it.
Restart ==
    /\ lpc \in {"stopped", "killed"}
    /\ runs < MaxRuns
    /\ runs' = runs + 1
    /\ lpc' = "start"
    /\ retention' = [mode |-> "unset", param |-> 0]
    /\ metadata' = <<>>
    /\ snap_id' = 0
    /\ snap' = NoSnap
    /\ pending' = FALSE
    /\ last_change' = 0
    /\ hpc' = "idle"
    /\ hq' = <<>>
    /\ UNCHANGED <<clock, keep_value, saved, archives, observing, now_ts, events,
                   historyVars, resolveVars, restoreVars, sideVars, input_path,
                   bound_path, disk_path, run_mode, bpc, opened>>

\* Between two runs metadata.json is removed or left unparseable:
\* load_metadata will return an empty document.
MetadataLost ==
    /\ lpc \in {"stopped", "killed"}
    /\ saved # <<>>
    /\ saved' = <<>>
    /\ UNCHANGED others
    /\ UNCHANGED <<clock, keep_value, retention, metadata, archives, lpc, observing,
                   snap_id, snap, now_ts, handlerVars, historyVars>>

\* Tracking started on a fresh store with -k 2.
InitRerun == InitTrack /\ keep_value = <<"2">>

NextRerun ==
    \/ Next
    \/ Interrupt
    \/ Restart
    \/ MetadataLost

SpecRerun == InitRerun /\ [][NextRerun]_vars

\* C12: an interrupt during a snapshot cycle of the loop lets the cycle run to
\* its end (create, prune, save) before the loop exits, so that at exit every
\* archive in the store belongs to a snapshot of the persisted metadata, and
\* every persisted snapshot is one whose create had returned.
CancelledCycleCompletes ==
    lpc = "stopped" =>
        /\ archives \subseteq Ids(saved)
        /\ Ids(saved) \subseteq Elems(idHistory)

\* -------------------------------------------- cli.py: incremental commits

\* The files of a tree with their contents: what git add -A stages.
FilesOf(tree) == {<<p, tree[p].data>> : p \in build_rel_paths(tree)}

\* A fresh store of cli.py and a source tree, which is edited while tracked.
InitGit ==
    /\ NoBind /\ NoFiles /\ NoNest
    /\ head = {}
    /\ commits = 0
    /\ clock = 0
    /\ keep_value = <<>>
    /\ retention = [mode |-> "unset", param |-> 0]
    /\ saved = <<>>
    /\ metadata = <<>>
    /\ archives = {}
    /\ lpc = "gitloop"
    /\ observing = FALSE
    /\ snap_id = 0
    /\ snap = NoSnap
    /\ now_ts = 0
    /\ Quiet
    /\ script = "cli.py"
    /\ r_value = <<>>
    /\ rpc = "off"
    /\ ts = NoTime
    /\ how = "none"
    /\ result = [kind |-> "none", snap |-> NoSnap]
    /\ snap_tree = EmptyTree
    /\ src_tree \in Trees
    /\ spc = "edit"
    /\ current_files = {}
    /\ to_delete = {}
    /\ to_copy = {}
    /\ tmp_dir = "none"
    /\ restores = 0
    /\ first_tree = EmptyTree

\* GitCreate with the test of git diff --cached --quiet left out.
GitCreate_always_commits ==
    /\ lpc = "gitloop"
    /\ commits < MaxSnaps
    /\ snap_id' = next_snapshot_id(metadata)
    /\ snap' = [id |-> snap_id', timestamp |-> clock]
    /\ head' = FilesOf(src_tree)
    /\ commits' = commits + 1
    /\ metadata' = Append(metadata, snap')
    /\ idHistory' = Append(idHistory, snap_id')
    /\ lpc' = "gitsave"
    /\ UNCHANGED <<clock, keep_value, retention, saved, archives, observing, now_ts,
                   handlerVars, removed, marks, decisions, resolveVars, restoreVars,
                   bindVars, fileVars, nestVars>>

\* cli.py's create_snapshot: git add -A; when git diff --cached --quiet finds
\* the staged tree equal to HEAD's (the empty tree before the first commit) it
\* returns None; else it commits and appends the snapshot to the metadata.
GitCreate ==
    /\ lpc = "gitloop"
    /\ IF FilesOf(src_tree) = head
       THEN /\ snap' = NoSnap
            /\ UNCHANGED <<snap_id, head, commits, metadata, idHistory, lpc>>
       ELSE /\ commits < MaxSnaps
            /\ snap_id' = next_snapshot_id(metadata)
            /\ snap' = [id |-> snap_id', timestamp |-> clock]
            /\ head' = FilesOf(src_tree)
            /\ commits' = commits + 1
            /\ metadata' = Append(metadata, snap')
            /\ idHistory' = Append(idHistory, snap_id')
            /\ lpc' = "gitsave"
    /\ UNCHANGED <<clock, keep_value, retention, saved, archives, observing, now_ts,
                   handlerVars, removed, marks, decisions, resolveVars, restoreVars,
                   bindVars, fileVars, nestVars>>

\* run_tracking of cli.py: if snap: self.save_metadata()
GitSave ==
    /\ lpc = "gitsave"
    /\ saved' = metadata
    /\ lpc' = "gitloop"
    /\ UNCHANGED <<clock, keep_value, retention, metadata, archives, observing,
                   snap_id, snap, now_ts, handlerVars, historyVars, others>>

NextGit ==
    \/ WriteFile
    \/ RemoveFile
    \/ MakeDir
    \/ RemoveDir
    \/ GitCreate
    \/ GitSave

SpecGit == InitGit /\ [][NextGit]_vars

\* C16: a create of cli.py that finds the staged tree identical to the
\* previous commit returns no snapshot, appends nothing to the collection,
\* makes no commit, and leaves the id of the next snapshot as it was.
NoChangeCreate ==
    [][(GitCreate /\ commits > 0 /\ FilesOf(src_tree) = head) =>
           /\ snap' = NoSnap
           /\ metadata' = metadata /\ saved' = saved
           /\ commits' = commits /\ head' = head
           /\ next_snapshot_id(metadata') = next_snapshot_id(metadata)
           /\ lpc' = "gitloop"]_vars

\* After two commits a create has found nothing to commit and returned None.
NoChangeWitness ==
    /\ lpc = "gitloop" /\ snap = NoSnap /\ commits = 2
    /\ FilesOf(src_tree) = head /\ Len(metadata) = 2 /\ saved = metadata

\* ------------------------------------------- tracking on a store in use

\* The store an earlier run has left: empty, or MaxSnaps snapshots with the
\* ids 1..MaxSnaps, taken before this run (at time 0).
PriorStores ==
    {q \in Collections :
        /\ Len(q) \in {0, MaxSnaps}
        /\ \A i \in 1..Len(q) : q[i].id = i /\ q[i].timestamp = 0}

\* run_tracking with Count retention on such a store.
InitRetain ==
    /\ NoExt
    /\ clock = DEBOUNCE_SECONDS
    /\ keep_value \in {<<"1">>, <<"2">>}
    /\ retention = [mode |-> "unset", param |-> 0]
    /\ saved \in PriorStores
    /\ metadata = <<>>
    /\ archives = Ids(saved)
    /\ lpc = "start"
    /\ observing = FALSE
    /\ snap_id = 0
    /\ snap = NoSnap
    /\ now_ts = 0
    /\ Quiet
    /\ NoResolve
    /\ NoRestore

SpecRetain == InitRetain /\ [][Next]_vars

\* C17: with retention Count(n), the collection holds at most n snapshots at
\* the end of every completed snapshot cycle, and so does every metadata
\* document the run persists, for any number of cycles.
RetentionEnforced ==
    /\ [](retention.mode = "count" /\ lpc = "sleep" /\ idHistory # <<>>
             => Len(metadata) <= retention.param /\ saved = metadata)
    /\ [][saved' # saved => Len(saved') <= retention.param]_vars

\* The first cycle of a run with Count(1) on a store of three snapshots has
\* left the one it created.
RetentionWitness ==
    /\ lpc = "sleep" /\ retention = [mode |-> "count", param |-> 1]
    /\ Len(removed) = 3 /\ Len(idHistory) = 1
    /\ metadata = <<snap>> /\ saved = metadata /\ archives = {snap.id}

\* ----------------------------------------------------------- save_metadata

\* main.py:19, cli.py:19
METADATA_FILE == "metadata.json"

\* The temporary file written in the place of metadata.json.tmp: the target.
tmp_path_is_path == METADATA_FILE

\* tmp_path = path + ".tmp"
tmp_path == "metadata.json.tmp"

\* A file of the store: absent, or holding the text written to it so far.
NoFile == [exists |-> FALSE, text |-> <<>>]

FileOf(text) == [exists |-> TRUE, text |-> text]

\* The text of a document is a sequence of tokens: the braces and one token
\* for each snapshot.
Token(kind, s) == [tok |-> kind, id |-> s.id, timestamp |-> s.timestamp]

\* json.dump(metadata, f)
dump(snaps) ==
    <<Token("{", NoSnap)>> \o [i \in 1..Len(snaps) |-> Token("snapshot", snaps[i])]
        \o <<Token("}", NoSnap)>>

\* json.load accepts a text: it is one whole document.
Parsable(text) ==
    /\ Len(text) >= 2
    /\ text[1] = Token("{", NoSnap)
    /\ text[Len(text)] = Token("}", NoSnap)
    /\ \A i \in 2..(Len(text) - 1) : text[i].tok = "snapshot"

\* json.load(f)
loads(text) == [i \in 1..(Len(text) - 2) |-> [id |-> text[i + 1].id,
                                               timestamp |-> text[i + 1].timestamp]]

\* load_metadata: a missing or unparsable file gives the empty document.
load_metadata(f) ==
    IF ~f.exists THEN <<>>
    ELSE IF Parsable(f.text) THEN loads(f.text) ELSE <<>>

\* os.replace(src, dst)
replace(fs, src, dst) ==
    IF src = dst THEN fs ELSE [fs EXCEPT ![dst] = fs[src], ![src] = NoFile]

\* A cycle has created and pruned, and is about to save: the store holds the
\* document of the previous save (or none yet), and a temporary file may be
\* left from a save that was stopped.
InitSave ==
    /\ NoBind /\ NoGit /\ NoNest
    /\ clock = MaxStamp
    /\ keep_value \in {<<"1">>, <<"2">>}
    /\ retention = parse_retention(keep_value)
    /\ saved \in Collections
    /\ snap_id = next_snapshot_id(saved)
    /\ snap = [id |-> snap_id, timestamp |-> clock]
    /\ now_ts = clock
    /\ LET r == prune_snapshots(Append(saved, snap), Ids(saved) \cup {snap_id},
                                retention.mode, retention.param, now_ts)
       IN metadata = r.snapshots /\ archives = r.archives
    /\ lpc = "save"
    /\ observing = TRUE
    /\ Quiet
    /\ NoResolve
    /\ NoRestore
    /\ \E old \in {FileOf(dump(saved))} \cup (IF saved = <<>> THEN {NoFile} ELSE {}),
          stale \in {NoFile, FileOf(<<Token("{", NoSnap)>>)} :
         files = (METADATA_FILE :> old) @@ (tmp_path :> stale)
    /\ wpc = "open"

\* with open(tmp_path, "w"): the file is created or truncated.
SaveOpen ==
    /\ wpc = "open"
    /\ files' = [files EXCEPT ![tmp_path] = FileOf(<<>>)]
    /\ wpc' = "dump"
    /\ UNCHANGED <<trackVars, resolveVars, restoreVars, bindVars, gitVars, nestVars>>

\* json.dump writes the text piece by piece; at its end the file is closed.
SaveDump ==
    /\ wpc = "dump"
    /\ LET text == dump(metadata)
           n == Len(files[tmp_path].text)
       IN IF n < Len(text)
          THEN /\ files' = [files EXCEPT ![tmp_path] =
                               FileOf(Append(files[tmp_path].text, text[n + 1]))]
               /\ wpc' = wpc
          ELSE files' = files /\ wpc' = "replace"
    /\ UNCHANGED <<trackVars, resolveVars, restoreVars, bindVars, gitVars, nestVars>>

\* os.replace(tmp_path, path): from here on the new document is the stored one.
SaveReplace ==
    /\ wpc = "replace"
    /\ files' = replace(files, tmp_path, METADATA_FILE)
    /\ saved' = metadata
    /\ wpc' = "done"
    /\ lpc' = "sleep"
    /\ UNCHANGED <<clock, keep_value, retention, metadata, archives, observing,
                   snap_id, snap, now_ts, handlerVars, historyVars, resolveVars,
                   restoreVars, bindVars, gitVars, nestVars>>

\* The process is stopped between two steps of save_metadata.
SaveStop ==
    /\ wpc \in {"open", "dump", "replace"}
    /\ wpc' = "stopped"
    /\ lpc' = "killed"
    /\ UNCHANGED <<clock, keep_value, retention, metadata, saved, archives, observing,
                   snap_id, snap, now_ts, handlerVars, historyVars, resolveVars,
                   restoreVars, bindVars, gitVars, nestVars, files>>

NextSave ==
    \/ SaveOpen
    \/ SaveDump
    \/ SaveReplace
    \/ SaveStop

SpecSave == InitSave /\ [][NextSave]_vars

\* C18: wherever save_metadata is stopped, metadata.json as the next load
\* reads it is the whole previous document (or missing, when there was none)
\* or the whole new document, never a partly written one.
AtomicMetadataWrite ==
    LET f == files[METADATA_FILE]
    IN /\ f.exists => Parsable(f.text)
       /\ ~f.exists => saved = <<>>
       /\ load_metadata(f) \in {saved, metadata}
       /\ wpc = "done" => load_metadata(f) = metadata

\* The save was stopped with the temporary file partly written: the target
\* still holds the previous document, which is not the new one.
AtomicWriteWitness ==
    /\ wpc = "stopped"
    /\ files[tmp_path].exists /\ ~Parsable(files[tmp_path].text)
    /\ Len(files[tmp_path].text) >= 2
    /\ saved # <<>> /\ saved # metadata
    /\ files[METADATA_FILE] = FileOf(dump(saved))

\* ------------------------------------------------------- the nesting check

\* A path is a tuple of components, the drive (or the root) first.
\* os.path.abspath of an absolute path: "." is dropped, ".." takes one
\* component back, never past the drive.
RECURSIVE normpath(_, _)
normpath(acc, rest) ==
    IF rest = <<>> THEN acc
    ELSE IF Head(rest) = "." THEN normpath(acc, Tail(rest))
    ELSE IF Head(rest) = ".."
         THEN normpath(IF Len(acc) > 1 THEN Front(acc) ELSE acc, Tail(rest))
    ELSE normpath(Append(acc, Head(rest)), Tail(rest))

abspath(path) == normpath(<<path[1]>>, Tail(path))

\* os.path.commonpath([p, q]) for two paths of one drive: the longest common
\* prefix of their components.
RECURSIVE commonpath(_, _)
commonpath(p, q) ==
    IF p = <<>> \/ q = <<>> THEN <<>>
    ELSE IF Head(p) # Head(q) THEN <<>>
    ELSE <<Head(p)>> \o commonpath(Tail(p), Tail(q))

\* The check with the store at the tracked directory itself let through.
ensure_strictly_inside(input, root) ==
    LET abs_in == abspath(input)
        vr == abspath(root)
    IN IF abs_in[1] # vr[1] THEN "passed"
       ELSE IF commonpath(abs_in, vr) = abs_in /\ vr # abs_in THEN "nested"
       ELSE "passed"

\* ensure_version_root_not_in_input: commonpath raises ValueError for paths
\* of two drives, and the check returns; it exits when the common path is
\* the tracked directory.
ensure_version_root_not_in_input(input, root) ==
    LET abs_in == abspath(input)
        vr == abspath(root)
    IN IF abs_in[1] # vr[1] THEN "passed"
       ELSE IF commonpath(abs_in, vr) = abs_in THEN "nested"
       ELSE "passed"

\* The -i and -o arguments.
InputArgs == {<<"C:", "w">>, <<"C:", "w", ".">>, <<"C:">>}

OutputArgs ==
    {<<"C:", "w">>, <<"C:", "w", "s">>, <<"C:", "w", "s", "..">>, <<"C:", "w", "..", "o">>,
     <<"C:", "o">>, <<"C:", "ws">>, <<"C:">>, <<"D:", "w", "s">>, <<"D:">>}

\* An invocation in tracking mode on a fresh store, or in recovery mode with
\* snapshot 1 resolved and a source tree to restore; main has resolved the
\* paths (get_version_root, abs_input).
InitNest ==
    /\ NoGit /\ NoFiles
    /\ \E i \in InputArgs, o \in OutputArgs :
         abs_input = abspath(i) /\ version_root = abspath(o)
    /\ npc = "check"
    /\ run_mode \in {"track", "recover"}
    /\ input_path = "None"
    /\ bound_path = "None"
    /\ disk_path = "None"
    /\ bpc = "off"
    /\ runs = 0
    /\ opened = {}
    /\ clock = DEBOUNCE_SECONDS
    /\ keep_value = IF run_mode = "track" THEN <<"2">> ELSE <<>>
    /\ retention = [mode |-> "unset", param |-> 0]
    /\ saved = IF run_mode = "track" THEN <<>> ELSE <<[id |-> 1, timestamp |-> 0]>>
    /\ metadata = saved
    /\ archives = Ids(saved)
    /\ lpc = "off"
    /\ observing = FALSE
    /\ snap_id = 0
    /\ snap = IF run_mode = "track" THEN NoSnap ELSE saved[1]
    /\ now_ts = 0
    /\ Quiet
    /\ NoResolve
    /\ snap_tree = IF run_mode = "track" THEN EmptyTree
                   ELSE [EmptyTree EXCEPT ![<<"b">>] = File(1)]
    /\ src_tree \in IF run_mode = "track" THEN {EmptyTree} ELSE Trees
    /\ spc = "off"
    /\ current_files = {}
    /\ to_delete = {}
    /\ to_copy = {}
    /\ tmp_dir = "none"
    /\ restores = 0
    /\ first_tree = EmptyTree

\* run_tracking and restore_snapshot begin with the check: SystemExit, or on
\* to load_metadata (tracking) and to the archive of the snapshot (restore).
CheckNesting ==
    /\ npc = "check"
    /\ npc' = ensure_version_root_not_in_input(abs_input, version_root)
    /\ lpc' = IF npc' = "passed" /\ run_mode = "track" THEN "start" ELSE lpc
    /\ spc' = IF npc' = "passed" /\ run_mode = "recover" THEN "edit" ELSE spc
    /\ UNCHANGED <<clock, keep_value, retention, metadata, saved, archives, observing,
                   snap_id, snap, now_ts, handlerVars, historyVars, resolveVars,
                   snap_tree, src_tree, syncVars, tmp_dir, restores, first_tree,
                   bindVars, gitVars, fileVars, version_root, abs_input>>

NextNest ==
    \/ CheckNesting
    \/ Start
    \/ CreateBegin
    \/ CreateEnd
    \/ Prune
    \/ Save
    \/ Mkdtemp
    \/ Extract
    \/ RestoreBegin
    \/ DeleteOne
    \/ CopyOne
    \/ Cleanup

SpecNest == InitNest /\ [][NextNest]_vars

\* C20: with the store root at the tracked directory or inside it, tracking
\* and restore fail with the nesting error, and nothing has happened before:
\* no snapshot, no observer, no temporary directory, no file of the source
\* deleted or written; with two paths of no common root the check passes.
NestingRefused ==
    LET nested == IsPrefix(abs_input, version_root)
    IN /\ nested =>
            /\ npc \in {"check", "nested"}
            /\ lpc = "off" /\ spc = "off" /\ ~observing
            /\ idHistory = <<>> /\ archives = Ids(saved) /\ metadata = saved
            /\ tmp_dir = "none" /\ current_files = {}
       /\ abs_input[1] # version_root[1] => npc \in {"check", "passed"}

\* A restore with the store given as w/s/.. (the tracked directory w itself)
\* has exited with the nesting error, the files of the source as they were.
NestingWitness ==
    /\ npc = "nested" /\ run_mode = "recover"
    /\ abs_input = <<"C:", "w">> /\ version_root = abs_input
    /\ build_rel_paths(src_tree) = {<<"a", "a">>}

\* ------------------------------------------------------------------ claims

\* C1: the id given to a newly created snapshot is strictly greater than every
\* id assigned before in the store; no id is used twice, also after pruning.
IdsNeverReused ==
    \A i, j \in 1..Len(idHistory) : i < j => idHistory[i] < idHistory[j]

\* C3: the prune step of a cycle never removes the snapshot created in that
\* cycle: after create then prune it is in the collection and its archive exists.
PruneKeepsCreated ==
    lpc = "save" => snap.id \in Ids(metadata) /\ snap.id \in archives

NoChangeLost ==
    (lpc = "sleep" /\ marks > 0) => pending

\* A change is marked while a cycle is between its archive and its save.
ChangeDuringCycle ==
    lpc \in {"archived", "prune", "save"} /\ marks > 0 /\ observing

MaxStampOf(q) == Max({q[i].timestamp : i \in 1..Len(q)})

MinStampOf(q) == -Max({-q[i].timestamp : i \in 1..Len(q)})

\* C6: with n snapshots in ascending order a non-negative idx selects position
\* n-1-idx and a negative idx position -(idx+1); "0" gives the latest and "-1"
\* the earliest snapshot; the valid indices of each sign map one-to-one onto
\* the snapshots, and every other index fails as out of range.
IndexResolution ==
    (rpc = "done" /\ saved # <<>> /\ IsInt(r_value)) =>
        LET n == Len(saved)
            idx == IntVal(r_value)
            asc == list_snapshots(saved)
        IN /\ idx \in 0..(n - 1) => result = Returned(asc[(n - 1 - idx) + 1])
           /\ idx \in (-n)..(-1) => result = Returned(asc[-(idx + 1) + 1])
           /\ idx \notin (-n)..(n - 1) => result = Raised("IndexOutOfRange")
           /\ idx = 0 => result.snap.timestamp = MaxStampOf(saved)
           /\ idx = -1 => result.snap.timestamp = MinStampOf(saved)
           /\ {index_pos(i, n) : i \in 0..(n - 1)} = 0..(n - 1)
           /\ {index_pos(i, n) : i \in (-n)..(-1)} = 0..(n - 1)
           /\ \A i \in (-n - 2)..(n + 2) : i \notin (-n)..(n - 1) => index_pos(i, n) = -1

\* "-2" has picked the second earliest of three snapshots stored out of order.
IndexWitness ==
    /\ rpc = "done" /\ r_value = <<"-", "2">> /\ Len(saved) = 3
    /\ result.kind = "snapshot"
    /\ saved[1].timestamp > saved[3].timestamp
    /\ saved[3].timestamp > saved[2].timestamp
    /\ result.snap = saved[3]

\* C7: a recovery point that gives a target time resolves to the snapshot with
\* the greatest timestamp <= target; with no such snapshot it fails with
\* NoSnapshotBeforeTime, and with an empty collection with NoSnapshots.
TimeTargetResolution ==
    rpc = "done" =>
        /\ saved = <<>> => result = Raised("NoSnapshots")
        /\ (saved # <<>> /\ how \in {"timedelta", "timestamp", "datetime"}) =>
              LET atOrBefore == {s \in Elems(saved) : s.timestamp * ts.den <= ts.num}
              IN IF atOrBefore = {}
                 THEN result = Raised("NoSnapshotBeforeTime")
                 ELSE /\ result.kind = "snapshot"
                      /\ result.snap \in atOrBefore
                      /\ \A s \in atOrBefore : s.timestamp <= result.snap.timestamp

\* The target 1.5 has picked the snapshot of time 1 and passed over one of
\* time 2 that is stored before it.
TimeTargetWitness ==
    /\ rpc = "done" /\ r_value = <<"1", ".", "5">> /\ Len(saved) = 3
    /\ result.kind = "snapshot" /\ result.snap.timestamp = 1
    /\ saved[1].timestamp = 2 /\ saved[2].timestamp = 0

Parses(kind, r) ==
    CASE kind = "index" -> IsInt(r)
      [] kind = "timedelta" -> TimeframeMatch(strip(r))
      [] kind = "timestamp" -> TimestampMatch(r)
      [] kind = "datetime" -> IsoMatch(IsoInput(r))

\* The first interpretation of order that parses r, or "none".
FirstParsing(order, r) ==
    IF \E i \in 1..Len(order) : Parses(order[i], r)
    THEN order[CHOOSE i \in 1..Len(order) :
                  Parses(order[i], r) /\ \A j \in 1..(i - 1) : ~Parses(order[j], r)]
    ELSE "none"

\* The outcome when the interpretations of order are tried in turn and the
\* first that parses decides.
DecidedBy(order) ==
    (rpc = "done" /\ saved # <<>>) =>
        LET first == FirstParsing(order, r_value)
        IN /\ how = first
           /\ first = "none" => result = Raised("InvalidRecoveryPoint")
           /\ first = "index" =>
                 ts = NoTime /\ result.kind \in {"snapshot", "IndexOutOfRange"}
           /\ first = "timedelta" =>
                 ts = [num |-> clock - TimeframeSeconds(strip(r_value)), den |-> 1]
           /\ first = "timestamp" => ts = FloatVal(r_value)
           /\ first \in {"timedelta", "timestamp", "datetime"} =>
                 result.kind \in {"snapshot", "NoSnapshotBeforeTime"}

RestoreRoundTrip ==
    spc = "done" => FilesOf(src_tree) = FilesOf(snap_tree)

\* What a tree has at path p: p itself and everything below it.
AtPath(tree, p) == [q \in {r \in Paths : IsPrefix(p, r)} |-> tree[q]]

HasFilesUnder(fs, p) == \E q \in fs : Len(q) > Len(p) /\ IsPrefix(p, q)

\* C13: when the source has a file at p and the snapshot files under directory
\* p, and when the source has files under directory p and the snapshot a file
\* at p, the restored source tree has at p exactly what the snapshot has at p.
RestoreResolvesCollisions ==
    (spc = "done" /\ restores = 1) =>
        LET snap_files == build_rel_paths(snap_tree)
        IN \A p \in Paths :
             (\/ p \in current_files /\ HasFilesUnder(snap_files, p)
              \/ HasFilesUnder(current_files, p) /\ p \in snap_files)
                 => AtPath(src_tree, p) = AtPath(snap_tree, p)

\* C14: a second restore to the same snapshot, run right after the first,
\* leaves the file set and the file contents of the source tree as the first
\* left them.
RestoreIdempotent ==
    (spc = "done" /\ restores = 2) => FilesOf(src_tree) = FilesOf(first_tree)

\* A second restore has run on the tree a collision had left: the snapshot's
\* file a, copied into the directory a of the source, is there as a/a.
RestoreTwiceWitness ==
    /\ spc = "done" /\ restores = 2
    /\ snap_tree[<<"a">>] = File(1)
    /\ current_files = {<<"a", "a">>}
    /\ src_tree[<<"a">>] = Dir /\ src_tree[<<"a", "a">>] = File(1)

\* C19: whenever restore_snapshot has ended after creating its temporary
\* directory (by returning, or by an exception of the extraction or of the
\* delete and copy loops), the directory is gone from the store and the
\* archive of the snapshot is still there, its content as captured.
ScratchDirScoped ==
    /\ [](spc \in {"done", "raised"} => tmp_dir = "removed" /\ snap.id \in archives)
    /\ [][snap_tree' = snap_tree /\ archives' = archives]_vars

\* A restore has ended with an exception raised by the copy loop half way.
ScratchDirWitness ==
    /\ spc = "raised" /\ tmp_dir = "removed"
    /\ to_copy # {} /\ to_copy # build_rel_paths(snap_tree)

\* C21: the handler's update of pending and last_change and the loop's
\* check-and-clear exclude each other: the loop never decides to snapshot on
\* a pending flag whose notification has not written its last_change yet, and
\* no notification is marked between the decision and the clearing of pending.
HandlerLoopExclusive ==
    /\ [][(lpc = "check" /\ lpc' = "clear") => hpc # "stamp"]_vars
    /\ [][(lpc = "clear" /\ marks' # marks) => lpc' # "clear"]_vars

\* C22: once an in-root notification has set pending and no further
\* notification arrives, the polling loop eventually starts a create after it
\* and pending becomes false (the window ends within the modelled time).
DebounceLive ==
    (pending /\ hpc = "idle" /\ events = MaxEvents
       /\ last_change + DEBOUNCE_SECONDS <= MaxTime)
      ~> (~pending /\ marks = 0)

\* The last notification has been answered: a snapshot was created after it
\* and the loop is asleep again with pending false.
DebounceLiveWitness ==
    /\ events = MaxEvents /\ hpc = "idle" /\ lpc = "sleep" /\ ~pending
    /\ last_change > 0 /\ Len(idHistory) >= 2 /\ marks = 0

\* C23: after prune every snapshot taken out of the collection has no archive
\* left in the store, every kept snapshot has its entry (id, timestamp)
\* as it was and its archive still there, and no other archive has appeared.
PruneFrame ==
    lpc = "save" =>
        /\ \A s \in Elems(saved) : s \notin Elems(metadata) => s.id \notin archives
        /\ \A s \in Elems(metadata) : s \in Elems(saved) /\ s.id \in archives
        /\ archives \subseteq Ids(saved)

\* A duration has taken out a snapshot with a higher id than one it kept:
\* the archive of the lower id stays, the other is gone.
PruneFrameWitness ==
    /\ lpc = "save" /\ retention.mode = "time"
    /\ Len(removed) = 1 /\ Len(metadata) = 2
    /\ metadata[1].id < removed[1].id
    /\ archives = Ids(metadata)

\* C24: the receipt of an event changes neither pending nor last_change, and
\* a directory event ends there; a path that is empty or outside the root is
\* passed over with both unchanged; a path inside the root sets pending to
\* true and then last_change to the current time; nothing else in the
\* handler writes the two.
HandlerFrame ==
    /\ [][events' # events =>
            /\ pending' = pending /\ last_change' = last_change
            /\ (hpc' = "idle" => hq' = <<>>)]_vars
    /\ [][(hpc = "mark" /\ hq' # hq) =>
            /\ Head(hq) = <<>> \/ ~IsPrefix(input_root, Head(hq))
            /\ pending' = pending /\ last_change' = last_change]_vars
    /\ [][(hpc = "mark" /\ hpc' = "stamp") =>
            /\ Head(hq) # <<>> /\ IsPrefix(input_root, Head(hq))
            /\ pending' /\ last_change' = last_change]_vars
    /\ [][(hpc = "stamp" /\ hpc' # "stamp") =>
            last_change' = clock /\ pending' = pending]_vars
    /\ [][((pending' /\ ~pending) \/ last_change' # last_change) =>
            /\ hpc \in {"mark", "stamp"}
            /\ Head(hq) # <<>> /\ IsPrefix(input_root, Head(hq))]_vars

\* Two events have been handled, the paths of one passed over and a path of
\* the other marked: pending is set and last_change is the time of the mark.
HandlerFrameWitness ==
    /\ events = 2 /\ hpc = "idle" /\ marks = 1 /\ lpc = "sleep"
    /\ pending /\ last_change = clock /\ clock > DEBOUNCE_SECONDS

\* C25: wherever the process is stopped, every snapshot listed in the
\* metadata.json on disk has its archive in the store.
PersistedHaveArchives ==
    Ids(saved) \subseteq archives

\* C26: create_snapshot never finds the archive of its id in the store: in
\* every state that is about to create, also in a run that follows an
\* interrupted run or a lost metadata.json, next_snapshot_id names no
\* archive that exists.
NoArchiveClash ==
    lpc = "create" => next_snapshot_id(metadata) \notin archives

====
